---- MODULE Spec2Model ----
(***************************************************************************)
(* Model of pcs.py: the download driver (download), the snapshot fetch     *)
(* (get_camera_ready_csv), the sync pass (download_files) and the          *)
(* per-file policy (download_file).                                        *)
(*                                                                         *)
(* The list file is read row by row: the cells of a row and the state of   *)
(* its destination files enter the model when the pass reaches the row.    *)
(* A pass only ever looks again at the row it failed on, so the model      *)
(* keeps the cells and the destination files of that one row.              *)
(***************************************************************************)
EXTENDS Integers, Sequences, FiniteSets, TLC

\* ------------------------------------------------------------------ bounds
NumRows == 2        \* submissions in the list file
MaxSize == 2        \* largest file size (bytes) served or found on disk

\* --------------------------------------------------------------- constants
MaxSeconds == 300   \* get_camera_ready_csv: file_is_current(list_file, 5 * 60)

None == 0 - 1       \* Python's None as the result of download_files

\* The rows of <track>_fields.csv selected for download (get_filetypes).
filetypes ==
    << [dl_flag |-> "pdf",   pcs_field |-> "Final PDF", description |-> "PDF",
        directory |-> "PDF", suffix |-> ".pdf"],
       [dl_flag |-> "video", pcs_field |-> "Video Figure", description |-> "Video Figure",
        directory |-> "VID", suffix |-> "-video.mp4"] >>

NumTypes == Len(filetypes)

\* The track_id argument of the run.
TrackId == "chi23b"

\* submission['Paper ID'] of the submission at an index of the list file.
PaperIds == <<"P123", "P124", "P125", "P126">>
PaperId(i) == PaperIds[i + 1]

\* f"{track_id}_{filetype['directory']}/{paper_id}{filetype['suffix']}" (line 184)
MutFilename(track_id, filetype, paper_id) ==
    track_id \o "_" \o filetype.directory \o "/" \o filetype.suffix \o paper_id
Filename(track_id, filetype, paper_id) ==
    track_id \o "_" \o filetype.directory \o "/" \o paper_id \o filetype.suffix

PcsFields == {filetypes[i].pcs_field : i \in 1..NumTypes}

\* Values of a cell of the list file: empty, a one-character plain value, a URL.
Url == "http://pcs/file"
CellValues == {"", "-", Url}

\* The cell of a column the list file does not have (KeyError).
Absent == "<absent>"

\* len(submission[field])
StrLen(s) == IF s = "" THEN 0 ELSE IF s = "-" THEN 1 ELSE Len(s)

\* --------------------------------------------------------- local files
NoFile == [exists |-> FALSE, size |-> 0]
File(n) == [exists |-> TRUE, size |-> n]
LocalFiles == {NoFile} \cup {File(n) : n \in 0..MaxSize}

\* --------------------------------------------------------- the network
\* What one urlopen(url) + getheader("Content-Length") + read loop can do.
\*   ok           response with Content-Length size, body read completely
\*   read_error   response with Content-Length size, the connection breaks
\*                after got bytes (an OSError out of doc.read)
\*   http_error   urllib.error.HTTPError (404, 401, ...)
\*   value_error  ValueError: Content-Length is not a number
\*   no_length    no Content-Length header: int(None) is a TypeError
\*   url_error    urllib.error.URLError: no route, refused, DNS
\*   timeout      socket.timeout after the 10 s timeout
FailureKinds == {"http_error", "value_error", "no_length", "url_error", "timeout"}

NetOutcomes ==
    {[kind |-> "ok", size |-> n, got |-> n] : n \in 1..MaxSize}
    \cup {[kind |-> "read_error", size |-> n, got |-> n - 1] : n \in 1..MaxSize}
    \cup {[kind |-> k, size |-> 0, got |-> 0] : k \in FailureKinds}

\* except (ValueError, HTTPError): the exceptions download_file catches
Caught(kind) == kind \in {"value_error", "http_error"}

\* The request got a response whose Content-Length parsed.
Opened(net) == net.kind \in {"ok", "read_error"}

\* file_is_current(file_path, max_seconds), age = time.time() - mtime
file_is_current(age, max_seconds) == age < max_seconds

\* Ages of the list file the fetch may find.
Ages == {0, MaxSeconds - 1, MaxSeconds, MaxSeconds + 1}


\* ------------------------------------------------------------ download_file
\* os.path.exists(filename), overwrite == "none" (line 127)
MutAlreadyThere(file) == file.exists /\ file.size > 0
AlreadyThere(file) == file.exists

\* os.path.exists(filename) and file_size == doc_size (lines 134-136)
MutSameSize(file, net) == file.exists /\ file.size <= net.size
SameSize(file, net) == file.exists /\ file.size = net.size

\* The destination opened for writing before the request: truncated on failure.
MutRaised(file, net) ==
    [ret   |-> IF Caught(net.kind) THEN "False" ELSE "raise",
     file  |-> File(0),
     calls |-> 1,
     msg   |-> IF Caught(net.kind) THEN "file not found on server" ELSE "",
     transfer |-> FALSE]

\* The outcome of a request that raised: caught (return False) or not.
Raised(file, net) ==
    [ret   |-> IF Caught(net.kind) THEN "False" ELSE "raise",
     file  |-> file,
     calls |-> 1,
     msg   |-> IF Caught(net.kind) THEN "file not found on server" ELSE "",
     transfer |-> FALSE]

\* with open(filename, 'wb') ... doc.read loop ... return True (lines 143-153)
Transfer(file, net) ==
    [ret   |-> IF net.kind = "ok" THEN "True" ELSE "raise",
     file  |-> File(net.got),
     calls |-> 1,
     msg   |-> "",
     transfer |-> TRUE]

AlreadyDownloaded(file, calls) ==
    [ret |-> "True", file |-> file, calls |-> calls,
     msg |-> "already downloaded", transfer |-> FALSE]

\* download_file with "all" compared by size like "modified".
MutDownloadFile(overwrite, file, net) ==
    IF overwrite = "none" /\ AlreadyThere(file) THEN AlreadyDownloaded(file, 0)
    ELSE IF ~Opened(net) THEN Raised(file, net)
    ELSE IF overwrite \in {"modified", "all"} /\ SameSize(file, net)
         THEN AlreadyDownloaded(file, 1)
    ELSE Transfer(file, net)

\* download_file(paper_id, url, filename, overwrite): what it returns
\* ("True", "False" or an exception that escapes), the destination file
\* afterwards, the number of requests made and what it wrote to the terminal.
download_file(overwrite, file, net) ==
    IF overwrite = "none" /\ AlreadyThere(file) THEN AlreadyDownloaded(file, 0)
    ELSE IF ~Opened(net) THEN Raised(file, net)
    ELSE IF overwrite = "modified" /\ SameSize(file, net)
         THEN AlreadyDownloaded(file, 1)
    ELSE Transfer(file, net)

\* ----------------------------------------------------- get_camera_ready_csv
\* The login handshake: the csrf token is found and the credentials are
\* accepted ("ok"); re.search finds no token and .groups() raises
\* ("no_token"); the portal rejects the credentials ("rejected"): the POST
\* is answered, nothing looks at the answer, and the GET of the spreadsheet
\* is answered with whatever the portal sends a session that is not logged in.
Logins == {"ok", "no_token", "rejected"}

\* get_camera_ready_csv(track_id, user, password, overwrite): whether it
\* wrote the list file, and whether an exception escaped.
\* The same with raise_for_status-like care: a rejected session stores nothing.
MutGetCameraReadyCsv(overwrite, exists, age, login) ==
    IF overwrite = FALSE /\ exists
    THEN [downloaded |-> FALSE, raised |-> FALSE, bad |-> FALSE]
    ELSE IF exists /\ file_is_current(age, MaxSeconds)
    THEN [downloaded |-> FALSE, raised |-> FALSE, bad |-> FALSE]
    ELSE IF login = "ok"
    THEN [downloaded |-> TRUE, raised |-> FALSE, bad |-> FALSE]
    ELSE [downloaded |-> FALSE, raised |-> TRUE, bad |-> FALSE]

\* downloaded: fd.write(r.content) ran; bad: what it wrote is the answer to
\* a session that is not logged in; raised: an exception escaped.
get_camera_ready_csv(overwrite, exists, age, login) ==
    IF overwrite = FALSE /\ exists
    THEN [downloaded |-> FALSE, raised |-> FALSE, bad |-> FALSE]
    ELSE IF exists /\ file_is_current(age, MaxSeconds)
    THEN [downloaded |-> FALSE, raised |-> FALSE, bad |-> FALSE]
    ELSE IF login = "ok"
    THEN [downloaded |-> TRUE, raised |-> FALSE, bad |-> FALSE]
    ELSE IF login = "rejected"
    THEN [downloaded |-> TRUE, raised |-> FALSE, bad |-> TRUE]
    ELSE [downloaded |-> FALSE, raised |-> TRUE, bad |-> FALSE]

\* ------------------------------------------------------------------ state
VARIABLES
    mode,         \* --overwrite: "all", "none" or "modified"
    header,       \* the columns of the list file among the configured fields
    pc,           \* where the run is
    start_index,  \* download(): start_index
    idx,          \* download_files(): the index of the submission
    ft,           \* download_files(): the position in filetypes
    row,          \* the cells of the submission at loaded_idx
    dest,         \* the destination files of the submission at loaded_idx
    loaded_idx,   \* the submission row and dest belong to, None before the first
    result,       \* what download_files returned last
    csv_exists,   \* the list file is on disk
    refetched,    \* the list file was written since the last failed pass
    restarted,    \* the pass is a restart of the while loop
    pass_touched, \* the pass has processed a file type of some submission
    pass_failed,  \* a transfer of the pass has failed
    ev,           \* the last (submission, file type) processed
    csv_bad,      \* the list file holds the answer to a rejected session
    auth_error,   \* the login handshake that failed: "", "no_token", "rejected"
    first_index,  \* --start: the start_index the run was given
    complete,     \* the submissions whose file types all went through in one pass
    healthy,      \* from now on every request and login succeeds
    opts,         \* the flags --tracks, --guess_fields, --status
    dl_flags,     \* the download flags of the command line
    config_ok,    \* <track>_fields.csv can be read
    selected,     \* download(): filetypes
    exit_code,    \* the status of sys.exit, None while there was none
    list_rows,    \* the submissions print_status read from the list file
    missing,      \* print_status(): missing, by position in filetypes
    written,      \* the list and configuration files the run has written
    dirs          \* the directories the run has created

\* What only the front of download() changes.
cliVars == <<opts, dl_flags, config_ok, selected, exit_code, list_rows, missing>>

vars == <<mode, header, pc, start_index, idx, ft, row, dest, loaded_idx, result,
          csv_exists, refetched, restarted, pass_touched, pass_failed, ev,
          csv_bad, auth_error, first_index, complete, healthy, cliVars, written, dirs>>

Modes == {"all", "none", "modified"}

\* LIST_FILE_SUFFIX, FIELDS_FILE_SUFFIX and the file names made with them
ListFile(track_id) == track_id \o "_camera_ready.csv"
FieldsFile(track_id) == track_id \o "_fields.csv"

\* os.makedirs(f"{track_id}_{filetype['directory']}") for each file type
Directories(track_id, types) ==
    {track_id \o "_" \o types[i].directory : i \in 1..Len(types)}

NoOpts == [tracks |-> FALSE, guess_fields |-> FALSE, status |-> FALSE]

NoNet == [kind |-> "none", size |-> 0, got |-> 0]

NoEvent ==
    [idx |-> None, ft |-> 0, cell |-> "", report |-> "", calls |-> 0,
     net |-> NoNet, ret |-> "", before |-> NoFile, after |-> NoFile,
     transfer |-> FALSE, filename |-> ""]

Init ==
    /\ mode \in Modes
    /\ header \in SUBSET PcsFields
    /\ pc = "fetch"
    /\ start_index \in 0..(NumRows - 1)
    /\ first_index = start_index
    /\ complete = {}
    /\ csv_bad = FALSE
    /\ auth_error = ""
    /\ healthy = FALSE
    /\ opts = NoOpts
    /\ dl_flags = {"all"}
    /\ config_ok = TRUE
    /\ selected = filetypes
    /\ exit_code = None
    /\ list_rows = <<>>
    /\ missing = <<>>
    /\ written = {}
    /\ dirs = {}
    /\ idx = 0
    /\ ft = 1
    /\ row = [f \in header |-> ""]
    /\ dest = [i \in 1..NumTypes |-> NoFile]
    /\ loaded_idx = None
    /\ result = None
    /\ csv_exists \in BOOLEAN
    /\ refetched = FALSE
    /\ restarted = FALSE
    /\ pass_touched = FALSE
    /\ pass_failed = FALSE
    /\ ev = NoEvent

\* ------------------------------------------------------------- the driver
\* What the portal and the servers can answer now.
LoginsNow == IF healthy THEN {"ok"} ELSE Logins
NetOutcomesNow == IF healthy THEN {n \in NetOutcomes : n.kind = "ok"} ELSE NetOutcomes

\* get_camera_ready_csv(track_id, user, password) followed by the call of
\* download_files: the makedirs loop, the list file loaded, enumerate at 0.
FetchAndEnter(age, login) ==
    LET r == get_camera_ready_csv(TRUE, csv_exists, age, login) IN
    /\ csv_exists' = (csv_exists \/ r.downloaded)
    /\ refetched' = (refetched \/ r.downloaded)
    /\ csv_bad' = IF r.downloaded THEN r.bad ELSE csv_bad
    /\ auth_error' = IF r.raised THEN "no_token"
                     ELSE IF r.bad THEN "rejected" ELSE auth_error
    /\ written' = IF r.downloaded THEN written \cup {ListFile(TrackId)} ELSE written
    /\ IF r.raised
       THEN /\ pc' = "login_failed"
            /\ UNCHANGED <<idx, pass_touched, pass_failed, dirs>>
       ELSE /\ pc' = "row"
            /\ dirs' = dirs \cup Directories(TrackId, filetypes)
            /\ idx' = 0
            /\ pass_touched' = FALSE
            /\ pass_failed' = FALSE

\* download(), lines 341-352: the first fetch and the first pass begins.
Start ==
    /\ pc = "fetch"
    /\ \E age \in Ages, login \in LoginsNow : FetchAndEnter(age, login)
    /\ UNCHANGED <<mode, header, start_index, ft, row, dest, loaded_idx, result,
                   restarted, ev, first_index, complete, healthy, cliVars>>

\* if start_index is None (line 353)
MutFinished(res) == res = None \/ res = 0
MutNeverFinished(res) == FALSE
Finished(res) == res = None

\* download(), lines 353-354 and 358: the pass completed, "Done!".
Finish ==
    /\ pc = "returned"
    /\ Finished(result)
    /\ pc' = "done"
    /\ UNCHANGED <<mode, header, start_index, idx, ft, row, dest, loaded_idx,
                   result, csv_exists, refetched, restarted, pass_touched,
                   pass_failed, ev, csv_bad, auth_error, first_index, complete,
                   healthy, cliVars, written, dirs>>

\* start_index = download_files(...) (line 352)
MutNextStart(res) == res + 1
NextStart(res) == res

\* download(), lines 352 and 355-357: the pass returned an index, which is
\* the new start_index; the list file is fetched and the next pass begins.
Restart ==
    /\ pc = "returned"
    /\ ~Finished(result)
    /\ start_index' = NextStart(result)
    /\ restarted' = TRUE
    /\ \E age \in Ages, login \in LoginsNow : FetchAndEnter(age, login)
    /\ UNCHANGED <<mode, header, ft, row, dest, loaded_idx, result, ev,
                   first_index, complete, healthy, cliVars>>

\* ------------------------------------------------------------ download_files
\* if idx < start_index (line 176)
MutSkipping(i, start) == i <= start
MutNeverSkipping(i, start) == FALSE
Skipping(i, start) == i < start

\* if len(submission[filetype['pcs_field']]) > 1 (line 181)
MutSubmitted(value) == StrLen(value) > 1 \/ value = ""
Submitted(value) == StrLen(value) > 1

\* lines 174-178: a submission before start_index is skipped.
SkipSubmission ==
    /\ pc = "row"
    /\ idx < NumRows
    /\ ~csv_bad
    /\ Skipping(idx, start_index)
    /\ idx' = idx + 1
    /\ UNCHANGED <<mode, header, pc, start_index, ft, row, dest, loaded_idx,
                   result, csv_exists, refetched, restarted, pass_touched,
                   pass_failed, ev, csv_bad, auth_error, first_index, complete,
                   healthy, cliVars, written, dirs>>

\* lines 174-179: the next submission enters the loop over the file types.
\* Its cells are those of the list file: the ones read before when the file
\* was not written since; its destination files are what is on disk.
EnterSubmission ==
    /\ pc = "row"
    /\ idx < NumRows
    /\ ~csv_bad
    /\ ~Skipping(idx, start_index)
    /\ pc' = "types"
    /\ ft' = 1
    /\ loaded_idx' = idx
    /\ IF loaded_idx = idx /\ ~refetched
       THEN row' = row
       ELSE row' \in [header -> CellValues]
    /\ IF loaded_idx = idx
       THEN dest' = dest
       ELSE dest' \in [1..NumTypes -> LocalFiles]
    /\ UNCHANGED <<mode, header, start_index, idx, result, csv_exists, refetched,
                   restarted, pass_touched, pass_failed, ev, csv_bad, auth_error,
                   first_index, complete, healthy, cliVars, written, dirs>>

\* The end of the body of the loop over the file types: the next file type,
\* or the next submission.
Advance ==
    IF ft < NumTypes
    THEN /\ ft' = ft + 1
         /\ UNCHANGED <<pc, idx, complete>>
    ELSE /\ ft' = 1
         /\ idx' = idx + 1
         /\ pc' = "row"
         /\ complete' = complete \cup {idx}

\* except KeyError (lines 194-195)
MutOnKeyError == "abort"
OnKeyError == "continue"

\* lines 180-195: one file type of the submission.
ProcessFiletype ==
    /\ pc = "types"
    /\ pass_touched' = TRUE
    /\ LET field == filetypes[ft].pcs_field IN
       IF field \notin header
       THEN \* submission[...] raises KeyError
            /\ ev' = [NoEvent EXCEPT !.idx = idx, !.ft = ft, !.cell = Absent,
                                     !.report = "field not in CSV",
                                     !.before = dest[ft], !.after = dest[ft]]
            /\ IF OnKeyError = "continue"
               THEN Advance /\ UNCHANGED <<result, pass_failed, refetched>>
               ELSE /\ result' = idx
                    /\ pc' = "returned"
                    /\ pass_failed' = TRUE
                    /\ refetched' = FALSE
                    /\ UNCHANGED <<idx, ft, complete>>
            /\ UNCHANGED dest
       ELSE IF Submitted(row[field])
       THEN \E net \in NetOutcomesNow :
            LET r == download_file(mode, dest[ft], net) IN
            /\ dest' = [dest EXCEPT ![ft] = r.file]
            /\ ev' = [idx |-> idx, ft |-> ft, cell |-> row[field],
                      report |-> IF r.ret = "False" THEN "failed" ELSE r.msg,
                      calls |-> r.calls,
                      net |-> IF r.calls = 0 THEN NoNet ELSE net,
                      ret |-> r.ret, before |-> dest[ft], after |-> r.file,
                      transfer |-> r.transfer,
                      filename |-> Filename(TrackId, filetypes[ft], PaperId(idx))]
            /\ IF r.ret = "True"
               THEN Advance /\ UNCHANGED <<result, pass_failed, refetched>>
               ELSE IF r.ret = "False"
               THEN \* return idx
                    /\ result' = idx
                    /\ pc' = "returned"
                    /\ pass_failed' = TRUE
                    /\ refetched' = FALSE
                    /\ UNCHANGED <<idx, ft, complete>>
               ELSE \* the exception leaves download_files and download
                    /\ pc' = "raised"
                    /\ pass_failed' = TRUE
                    /\ UNCHANGED <<idx, ft, result, refetched, complete>>
       ELSE /\ ev' = [NoEvent EXCEPT !.idx = idx, !.ft = ft, !.cell = row[field],
                                     !.report = "not submitted",
                                     !.before = dest[ft], !.after = dest[ft]]
            /\ Advance
            /\ UNCHANGED <<dest, result, pass_failed, refetched>>
    /\ UNCHANGED <<mode, header, start_index, row, loaded_idx, csv_exists, restarted,
                   csv_bad, auth_error, first_index, healthy, cliVars, written, dirs>>

\* line 196 and the end of the function: every submission was enumerated,
\* download_files returns None.
EndOfList ==
    /\ pc = "row"
    /\ idx = NumRows
    /\ ~csv_bad
    /\ result' = None
    /\ pc' = "returned"
    /\ UNCHANGED <<mode, header, start_index, idx, ft, row, dest, loaded_idx,
                   csv_exists, refetched, restarted, pass_touched, pass_failed, ev,
                   csv_bad, auth_error, first_index, complete, healthy, cliVars, written, dirs>>

\* lines 172-175 on the answer to a rejected session: it has no data rows and
\* the loop body never runs (download_files returns None), or it has rows,
\* none with a 'Paper ID', and the KeyError of line 175 escapes.
BadListPass ==
    /\ pc = "row"
    /\ csv_bad
    /\ \/ result' = None /\ pc' = "returned"
       \/ pc' = "bad_list" /\ UNCHANGED result
    /\ UNCHANGED <<mode, header, start_index, idx, ft, row, dest, loaded_idx,
                   csv_exists, refetched, restarted, pass_touched, pass_failed, ev,
                   csv_bad, auth_error, first_index, complete, healthy, cliVars, written, dirs>>

\* The portal and the servers stop failing.
Recover ==
    /\ ~healthy
    /\ healthy' = TRUE
    /\ UNCHANGED <<mode, header, pc, start_index, idx, ft, row, dest, loaded_idx,
                   result, csv_exists, refetched, restarted, pass_touched,
                   pass_failed, ev, csv_bad, auth_error, first_index, complete,
                   cliVars, written, dirs>>

Next ==
    \/ Start
    \/ SkipSubmission
    \/ EnterSubmission
    \/ ProcessFiletype
    \/ EndOfList
    \/ Finish
    \/ Restart
    \/ BadListPass

Spec == Init /\ [][Next]_vars

\* The run with a portal that recovers at some time; the process, a single
\* thread, takes its next step whenever it has one.
LiveNext == Next \/ Recover

\* The runs followed to their end: a fresh directory, --start 0, a list
\* file with one of the configured columns.
LiveInit ==
    /\ Init
    /\ Cardinality(header) = 1
    /\ ~csv_exists
    /\ start_index = 0

LiveSpec == LiveInit /\ [][LiveNext]_vars /\ WF_vars(Next)

\* ------------------------------------------------- the front of download()
\* The download flags a command line may give; "slides" is in no row of
\* <track>_fields.csv.
Tokens == {"all", "pdf", "video", "slides"}

\* What only the sync loop changes.
passVars == <<mode, header, start_index, idx, ft, row, dest, loaded_idx, result,
              refetched, restarted, pass_touched, pass_failed, ev, first_index,
              complete, healthy>>

\* The command line just parsed, nothing done yet.
CliInit ==
    /\ mode = "modified"
    /\ header = PcsFields
    /\ pc = "cli"
    /\ start_index = 0
    /\ first_index = 0
    /\ complete = {}
    /\ csv_bad = FALSE
    /\ auth_error = ""
    /\ healthy = FALSE
    /\ opts \in [tracks : BOOLEAN, guess_fields : BOOLEAN, status : BOOLEAN]
    /\ dl_flags \in SUBSET Tokens
    /\ config_ok \in BOOLEAN
    /\ selected = <<>>
    /\ exit_code = None
    /\ list_rows = <<>>
    /\ missing = <<>>
    /\ written = {}
    /\ dirs = {}
    /\ idx = 0
    /\ ft = 1
    /\ row = [f \in header |-> ""]
    /\ dest = [i \in 1..NumTypes |-> NoFile]
    /\ loaded_idx = None
    /\ result = None
    /\ csv_exists \in BOOLEAN
    /\ refetched = FALSE
    /\ restarted = FALSE
    /\ pass_touched = FALSE
    /\ pass_failed = FALSE
    /\ ev = NoEvent

\* fields_file + ".test" (line 282)
MutDraftFile(fields_file) == fields_file
DraftFile(fields_file) == fields_file \o ".test"

\* if status: (line 343)
MutStatusOnly(o) == FALSE
StatusOnly(o) == o.status

\* The selection exits as soon as one token is not configured.
MutSelectFiletypes(readable, all_filetypes, flags) ==
    IF ~readable THEN [exit |-> 1, filetypes |-> <<>>]
    ELSE IF "all" \in flags THEN [exit |-> None, filetypes |-> all_filetypes]
    ELSE LET acceptable == {all_filetypes[i].dl_flag : i \in 1..Len(all_filetypes)}
             accepted == {f \in flags : f \in acceptable}
             Wanted(t) == t.dl_flag \in accepted
         IN  IF accepted # flags
             THEN [exit |-> 1, filetypes |-> <<>>]
             ELSE [exit |-> None, filetypes |-> SelectSeq(all_filetypes, Wanted)]

\* get_filetypes(fields_file) and lines 317-339: sys.exit(1), or the file
\* types to work on.
SelectFiletypes(readable, all_filetypes, flags) ==
    IF ~readable THEN [exit |-> 1, filetypes |-> <<>>]
    ELSE IF "all" \in flags THEN [exit |-> None, filetypes |-> all_filetypes]
    ELSE LET acceptable == {all_filetypes[i].dl_flag : i \in 1..Len(all_filetypes)}
             accepted == {f \in flags : f \in acceptable}
             Wanted(t) == t.dl_flag \in accepted
         IN  IF Cardinality(flags) > 0 /\ Cardinality(accepted) = 0
             THEN [exit |-> 1, filetypes |-> <<>>]
             ELSE [exit |-> None, filetypes |-> SelectSeq(all_filetypes, Wanted)]

\* print_status(track_id, filetypes): for each file type the Paper IDs of
\* the submissions whose field is in the list file with len(...) < 1.
PrintStatus(types, rows) ==
    [k \in 1..Len(types) |->
        {PaperId(i - 1) : i \in {j \in 1..Len(rows) :
            /\ types[k].pcs_field \in DOMAIN rows[j]
            /\ StrLen(rows[j][types[k].pcs_field]) < 1}}]

\* The list files print_status may read.
ListFiles ==
    UNION {[1..NumRows -> [h -> CellValues]] : h \in SUBSET PcsFields}

\* get_camera_ready_csv as download() calls it outside the loop.
Fetch(age, login) ==
    LET r == get_camera_ready_csv(TRUE, csv_exists, age, login) IN
    /\ csv_exists' = (csv_exists \/ r.downloaded)
    /\ csv_bad' = IF r.downloaded THEN r.bad ELSE csv_bad
    /\ auth_error' = IF r.raised THEN "no_token"
                     ELSE IF r.bad THEN "rejected" ELSE auth_error
    /\ written' = IF r.downloaded THEN written \cup {ListFile(TrackId)} ELSE written

\* lines 298-303: --tracks lists the tracks and exits with status 1.
ListTracks ==
    /\ pc = "cli"
    /\ opts.tracks
    /\ \E login \in Logins :
          IF login = "ok"
          THEN pc' = "exit" /\ exit_code' = 1 /\ auth_error' = auth_error
          ELSE pc' = "login_failed" /\ exit_code' = exit_code /\ auth_error' = login
    /\ UNCHANGED <<passVars, opts, dl_flags, config_ok, selected, list_rows, missing,
                   written, dirs, csv_exists, csv_bad>>

\* lines 305-311: --guess_fields fetches the list file, writes the draft of
\* the configuration and exits with status 0. A list file without rows, or
\* the answer to a rejected session, can end create_fields_file before it
\* writes.
GuessFields ==
    /\ pc = "cli"
    /\ ~opts.tracks
    /\ opts.guess_fields
    /\ \E age \in Ages, login \in Logins, classified \in BOOLEAN :
          LET r == get_camera_ready_csv(TRUE, csv_exists, age, login)
              list == IF r.downloaded THEN {ListFile(TrackId)} ELSE {}
          IN
          /\ csv_exists' = (csv_exists \/ r.downloaded)
          /\ csv_bad' = IF r.downloaded THEN r.bad ELSE csv_bad
          /\ auth_error' = IF r.raised THEN "no_token"
                           ELSE IF r.bad THEN "rejected" ELSE auth_error
          /\ IF r.raised
             THEN pc' = "login_failed" /\ written' = written /\ exit_code' = exit_code
             ELSE IF csv_bad' /\ ~classified
             THEN pc' = "bad_list" /\ written' = written \cup list
                  /\ exit_code' = exit_code
             ELSE /\ pc' = "exit"
                  /\ exit_code' = 0
                  /\ written' = written \cup list \cup {DraftFile(FieldsFile(TrackId))}
    /\ UNCHANGED <<passVars, opts, dl_flags, config_ok, selected, list_rows, missing,
                   dirs>>

\* lines 312-339: the configuration is read and the file types are selected.
LoadConfig ==
    /\ pc = "cli"
    /\ ~opts.tracks
    /\ ~opts.guess_fields
    /\ LET r == SelectFiletypes(config_ok, filetypes, dl_flags) IN
       /\ selected' = r.filetypes
       /\ exit_code' = r.exit
       /\ pc' = IF r.exit = None THEN "selected" ELSE "exit"
    /\ UNCHANGED <<passVars, opts, dl_flags, config_ok, list_rows, missing, written,
                   dirs, csv_exists, csv_bad, auth_error>>

\* lines 341-342: the list file is fetched.
FetchList ==
    /\ pc = "selected"
    /\ \E age \in Ages, login \in Logins :
          /\ Fetch(age, login)
          /\ pc' = IF get_camera_ready_csv(TRUE, csv_exists, age, login).raised
                   THEN "login_failed" ELSE "fetched"
    /\ UNCHANGED <<passVars, cliVars, dirs>>

\* lines 343-345 and print_status: the report of what is missing, no download.
Status ==
    /\ pc = "fetched"
    /\ StatusOnly(opts)
    /\ IF Len(selected) = 0
       THEN \* sys.exit() at line 201
            UNCHANGED <<list_rows, missing>>
       ELSE IF csv_bad
       THEN \* no row has a 'DOI': every row ends in except KeyError
            /\ list_rows' = <<>>
            /\ missing' = PrintStatus(selected, <<>>)
       ELSE \E rows \in ListFiles :
            /\ list_rows' = rows
            /\ missing' = PrintStatus(selected, rows)
    /\ pc' = "exit"
    /\ exit_code' = 0
    /\ UNCHANGED <<passVars, opts, dl_flags, config_ok, selected, written, dirs,
                   csv_exists, csv_bad, auth_error>>

\* lines 346-348: no file type is selected, "Done!".
NothingToDo ==
    /\ pc = "fetched"
    /\ ~StatusOnly(opts)
    /\ Len(selected) = 0
    /\ pc' = "done"
    /\ UNCHANGED <<passVars, cliVars, written, dirs, csv_exists, csv_bad, auth_error>>

\* lines 350-352 and 166-170: the loop is entered, download_files creates
\* the directories of the selected file types.
BeginSync ==
    /\ pc = "fetched"
    /\ ~StatusOnly(opts)
    /\ Len(selected) > 0
    /\ dirs' = dirs \cup Directories(TrackId, selected)
    /\ pc' = "sync"
    /\ UNCHANGED <<passVars, cliVars, written, csv_exists, csv_bad, auth_error>>

CliNext ==
    \/ ListTracks
    \/ GuessFields
    \/ LoadConfig
    \/ FetchList
    \/ Status
    \/ NothingToDo
    \/ BeginSync

\* download() from the command line to the entry of the sync loop.
CliSpec == CliInit /\ [][CliNext]_vars

TypeOK ==
    /\ mode \in Modes
    /\ header \subseteq PcsFields
    /\ pc \in {"fetch", "row", "types", "returned", "done", "raised", "login_failed",
              "bad_list"}
    /\ csv_bad \in BOOLEAN
    /\ auth_error \in {"", "no_token", "rejected"}
    /\ first_index \in 0..(NumRows - 1)
    /\ complete \subseteq 0..(NumRows - 1)
    /\ healthy \in BOOLEAN
    /\ start_index \in 0..(NumRows - 1)
    /\ idx \in 0..NumRows
    /\ ft \in 1..NumTypes
    /\ row \in [header -> CellValues]
    /\ dest \in [1..NumTypes -> LocalFiles]
    /\ loaded_idx \in {None} \cup 0..(NumRows - 1)
    /\ result \in {None} \cup 0..(NumRows - 1)
    /\ csv_exists \in BOOLEAN
    /\ refetched \in BOOLEAN

\* ------------------------------------------------------------------ claims
\* The pass is running (download_files has not returned).
InPass == pc \in {"row", "types"}

\* The last pair processed had a URL in its cell.
UrlEvent == ev.idx # None /\ ev.cell = Url

\* The request of the last pair failed: no response, an error response, no
\* usable Content-Length, or the connection broke while the body was read.
TransferFailed ==
    /\ ev.calls > 0
    /\ \/ ev.net.kind \in FailureKinds
       \/ ev.net.kind = "read_error" /\ ev.transfer

\* C1: a pass that follows a failed pass never runs on the old snapshot: the
\* list file was fetched again between the failure and the restarted pass.
C1_RestartFetchesSnapshot ==
    (restarted /\ InPass) => refetched

\* C2: every kind of transfer failure makes download_file return False, so
\* that download_files returns the row index; none terminates the process.
C2_EveryFailureIsReported ==
    /\ TransferFailed => ev.ret = "False"
    /\ pc # "raised"

\* C3: when a transfer fails at row k the pass is aborted: download_files
\* returns exactly k and processes nothing after the failed pair.
C3_FailureReturnsRowIndex ==
    pass_failed => (pc = "returned" /\ result = ev.idx /\ idx = ev.idx /\ ft = ev.ft)

\* C4: the pass after a failure index k starts at row k: start_index is k,
\* nothing below k is processed, and row k is the first row processed.
C4_RestartBeginsAtFailureIndex ==
    (restarted /\ InPass) =>
        /\ start_index = result
        /\ pass_touched => ev.idx >= start_index
        /\ (pc = "row" /\ ~pass_touched) => idx <= start_index
        /\ (pc = "types" /\ ~pass_touched) => idx = start_index

C4_Witness ==
    /\ restarted /\ InPass
    /\ start_index > 0
    /\ pass_touched
    /\ ev.idx = start_index
    /\ ev.calls > 0

\* C5: the while loop ends exactly when a pass returns None: a returned
\* index, index 0 included, is followed by the refetch and the next pass,
\* never by "Done!".
C5_LoopStopsExactlyOnCompletion ==
    /\ [][pc = "returned" =>
            /\ (result = None) <=> (pc' = "done")
            /\ (result # None) => (pc' \in {"row", "login_failed"}
                                   /\ start_index' = result)]_vars
    /\ [](pc = "done" => result = None)

C5_Witness ==
    /\ restarted
    /\ start_index = 0
    /\ result = 0
    /\ pc = "row"
    /\ idx = 0

\* C6: under "modified" every pair with a URL is probed; it is skipped when
\* the local file exists with the remote size, and transferred when the
\* sizes differ or there is no local file.
C6_ModifiedComparesSizes ==
    (mode = "modified" /\ UrlEvent) =>
        /\ ev.calls = 1
        /\ Opened(ev.net) =>
              /\ ev.transfer <=> ~(ev.before.exists /\ ev.before.size = ev.net.size)
              /\ ev.transfer => ev.after = File(ev.net.got)
        /\ ~ev.transfer => (ev.after = ev.before)
        /\ (~ev.transfer /\ Opened(ev.net)) => ev.ret = "True"

C6_Witness ==
    /\ mode = "modified" /\ UrlEvent
    /\ ev.before.exists
    /\ ev.before.size = ev.net.size
    /\ ev.calls = 1
    /\ ~ev.transfer
    /\ ev.ret = "True"

\* C7: under "none" a pair whose destination file exists, whatever its size,
\* makes no request and no transfer and succeeds; a pair without a
\* destination file is requested and transferred.
C7_NoneSkipsExistingFile ==
    (mode = "none" /\ UrlEvent) =>
        /\ ev.before.exists =>
              /\ ev.calls = 0
              /\ ~ev.transfer
              /\ ev.ret = "True"
              /\ ev.after = ev.before
        /\ ~ev.before.exists =>
              /\ ev.calls = 1
              /\ Opened(ev.net) => (ev.transfer /\ ev.after = File(ev.net.got))

C7_Witness ==
    /\ mode = "none" /\ UrlEvent
    /\ ev.before = File(0)
    /\ ev.calls = 0
    /\ ev.after = File(0)
    /\ ev.ret = "True"

\* C8: under "all" every pair with a URL is requested and transferred over
\* whatever is at the destination, also in a restarted pass for the files
\* of the failed row that are already there.
C8_AllAlwaysTransfers ==
    (mode = "all" /\ UrlEvent) =>
        /\ ev.calls = 1
        /\ ev.report # "already downloaded"
        /\ Opened(ev.net) => (ev.transfer /\ ev.after = File(ev.net.got))

C8_Witness ==
    /\ mode = "all" /\ UrlEvent
    /\ restarted
    /\ ev.idx = start_index
    /\ ev.before.exists
    /\ ev.before.size = ev.net.size
    /\ ev.transfer
    /\ ev.net.kind = "ok"

\* C9: a pair whose source field is present and not empty is never reported
\* "not submitted": the overwrite policy is applied to it.
C9_NonEmptyFieldIsProcessed ==
    (ev.idx # None /\ ev.cell \in CellValues /\ ev.cell # "") =>
        ev.report # "not submitted"

\* C10: a pair whose source field is not a column of the list file is
\* reported "field not in CSV", makes no request, and the pass goes on with
\* the next file type and the following rows: it is no failure.
C10_AbsentFieldIsSkipped ==
    (ev.idx # None /\ ev.cell = Absent) =>
        /\ ev.report = "field not in CSV"
        /\ ev.calls = 0
        /\ ~ev.transfer
        /\ ev.after = ev.before
        /\ ~pass_failed
        /\ pc \in {"types", "row", "returned", "done"}
        /\ pc = "types" =>
              \/ idx = ev.idx /\ ft = ev.ft + 1
              \/ idx = ev.idx + 1 /\ ft = 1
        /\ pc = "row" => idx = ev.idx + 1
        /\ pc \in {"returned", "done"} => result = None

C10_Witness ==
    /\ ev.idx # None /\ ev.cell = Absent
    /\ ev.ft = NumTypes
    /\ pc = "types"
    /\ idx = ev.idx + 1
    /\ ft = 1

\* C11: a pair whose source field is a column of the list file and is empty
\* is reported "not submitted", makes no request, and the pass goes on with
\* the next file type and the following rows: it is no failure.
C11_EmptyFieldIsNotSubmitted ==
    (ev.idx # None /\ ev.cell = "") =>
        /\ ev.report = "not submitted"
        /\ ev.calls = 0
        /\ ~ev.transfer
        /\ ev.after = ev.before
        /\ ev.ret = ""
        /\ ~pass_failed
        /\ pc \in {"types", "row", "returned", "done"}
        /\ pc = "types" =>
              \/ idx = ev.idx /\ ft = ev.ft + 1
              \/ idx = ev.idx + 1 /\ ft = 1
        /\ pc = "row" => idx = ev.idx + 1
        /\ pc \in {"returned", "done"} => result = None

C11_Witness ==
    /\ ev.idx # None /\ ev.cell = ""
    /\ ev.report = "not submitted"
    /\ ev.ft < NumTypes
    /\ pc = "types"
    /\ idx = ev.idx
    /\ ft = ev.ft + 1

\* C18: a returned failure index is at least the offset the pass started
\* with and below the number of rows, so start_index never decreases.
C18_OffsetNeverDecreases ==
    /\ [](( pc = "returned" /\ result # None) =>
            (start_index <= result /\ result < NumRows))
    /\ [][start_index' >= start_index]_vars

C18_Witness ==
    /\ restarted
    /\ pc = "returned"
    /\ result # None
    /\ result > start_index

\* C20: in every overwrite mode a request that fails before any data is
\* read leaves the file at the destination as it was.
C20_FailedRequestKeepsFile ==
    (ev.idx # None /\ ev.calls > 0 /\ ev.net.kind \in FailureKinds) =>
        /\ ev.after = ev.before
        /\ ~ev.transfer
        /\ (loaded_idx = ev.idx /\ pc \in {"returned", "raised"}) =>
              dest[ev.ft] = ev.before

C20_Witness ==
    /\ ev.idx # None /\ ev.calls > 0
    /\ ev.net.kind \in {"http_error", "value_error"}
    /\ ev.before.exists
    /\ ev.before.size > 0
    /\ ev.after = ev.before
    /\ dest[ev.ft] = ev.before
    /\ pc = "returned"

\* C13: the destination path of a pair is exactly
\* {track_id}_{directory}/{submission_id}{suffix}, the same in every pass,
\* overwrite mode and start offset.
C13_ExpectedPaths ==
    <<  <<"chi23b_PDF/P123.pdf", "chi23b_VID/P123-video.mp4">>,
        <<"chi23b_PDF/P124.pdf", "chi23b_VID/P124-video.mp4">>,
        <<"chi23b_PDF/P125.pdf", "chi23b_VID/P125-video.mp4">>,
        <<"chi23b_PDF/P126.pdf", "chi23b_VID/P126-video.mp4">> >>

C12_FailedLoginIsFatal ==
    auth_error # "" => (pc = "login_failed" /\ ~csv_bad)

\* C17: when the loop ends with "Done!", every submission from the initial
\* start offset on has had all its file types handled without failure in
\* some pass (the list file being the portal's list in every pass).
C17_NothingLeftUnprocessed ==
    (pc = "done" /\ auth_error # "rejected") =>
        \A i \in first_index..(NumRows - 1) : i \in complete

C17_Witness ==
    /\ pc = "done"
    /\ restarted
    /\ first_index = 0
    /\ start_index = NumRows - 1
    /\ complete = 0..(NumRows - 1)
    /\ ev.transfer

\* The run has a next step and reads the portal's list.
Alive == pc \in {"fetch", "row", "types", "returned"} /\ ~csv_bad

\* C19: once every request succeeds, the loop comes to its end with the
\* result "completed".
C19_TerminatesWithoutFailures ==
    (healthy /\ Alive) ~> (pc = "done" /\ result = None)

C19_Witness ==
    /\ healthy
    /\ restarted
    /\ pc = "done"
    /\ result = None

\* The run is a download or a status run.
DownloadOrStatus == ~opts.tracks /\ ~opts.guess_fields

\* C14: a download or status run exits with status 1 when the configuration
\* cannot be read, or when tokens were given and none is a flag of the
\* configuration; otherwise the file types are exactly those of the matched
\* tokens, all of them with the token "all".
C14_NoMatch ==
    /\ dl_flags # {}
    /\ "all" \notin dl_flags
    /\ dl_flags \cap {"pdf", "video"} = {}

C14_Expected ==
    IF "all" \in dl_flags THEN filetypes
    ELSE IF "pdf" \in dl_flags /\ "video" \in dl_flags THEN filetypes
    ELSE IF "pdf" \in dl_flags THEN <<filetypes[1]>>
    ELSE IF "video" \in dl_flags THEN <<filetypes[2]>>
    ELSE <<>>

C14_ExitOrSelection ==
    (DownloadOrStatus /\ pc # "cli") =>
        IF ~config_ok \/ C14_NoMatch
        THEN /\ pc = "exit"
             /\ exit_code = 1
             /\ written = {}
             /\ dirs = {}
        ELSE /\ exit_code # 1
             /\ selected = C14_Expected
             /\ pc = "sync" => dirs = Directories(TrackId, C14_Expected)

C14_Witness ==
    /\ DownloadOrStatus
    /\ dl_flags = {"video", "slides"}
    /\ pc = "sync"
    /\ selected = <<filetypes[2]>>
    /\ dirs = {"chi23b_VID"}

C16_GuessWritesDraftOnly ==
    (opts.guess_fields /\ ~opts.tracks) =>
        /\ "chi23b_fields.csv" \notin written
        /\ written \subseteq {"chi23b_camera_ready.csv", "chi23b_fields.csv.test"}
        /\ dirs = {}
        /\ selected = <<>>
        /\ pc \in {"cli", "exit", "login_failed", "bad_list"}
        /\ pc = "exit" => (exit_code = 0 /\ "chi23b_fields.csv.test" \in written)

C16_Witness ==
    /\ opts.guess_fields /\ ~opts.tracks
    /\ pc = "exit"
    /\ exit_code = 0
    /\ written = {"chi23b_camera_ready.csv", "chi23b_fields.csv.test"}

=============================================================================
